---- MODULE Spec2Model ----
(***************************************************************************)
(* A model of the RBAC gym API (app/main.py, app/dependencies.py,         *)
(* app/auth.py, app/crud.py, app/models.py, app/schemas.py).              *)
(*                                                                         *)
(* The state is the database (tables users, classes, bookings), the wall  *)
(* clock, and for every API client the bearer token it holds, the request *)
(* it has in flight, and the last response sent.  Handlers that issue     *)
(* several database statements (register_user, book_class) are split at   *)
(* the statements, since requests are served by concurrent workers that   *)
(* share nothing but the database.                                        *)
(***************************************************************************)
EXTENDS Integers, Sequences, FiniteSets, TLC

VARIABLES
    users,      \* table users: id (the index) -> row
    classes,    \* table classes
    bookings,   \* table bookings
    now,        \* the clock, in seconds
    held,       \* the bearer token each client keeps from its last login
    inflight,   \* the request each client has in flight
    resp        \* the last response sent, and the client it went to

vars == <<users, classes, bookings, now, held, inflight, resp>>

db == <<users, classes, bookings>>

(***************************************************************************)
(* Bounds of the model.                                                    *)
(***************************************************************************)
Clients == {"c1", "c2"}

MaxClasses == 1

MaxTime == 3601

Capacities == {0, 1}

TrainerIds == {1}

Passwords == {"p0", "p1", "p2"}

(***************************************************************************)
(* schemas.py                                                              *)
(***************************************************************************)
UserRole == {"admin", "member", "trainer"}

\* The role values a request body may carry: the three of the Literal, and
\* one outside it.
RoleInputs == UserRole \cup {"owner"}

\* The RequestValidationError of a body whose role is outside the Literal
\* (UserCreate.role, UserUpdateRole.role).
unprocessable ==
    [status |-> 422, detail |-> "Input should be 'admin', 'member' or 'trainer'"]

\* UserPublic.model_validate(db_user): the id, email, name and role columns.
UserPublic(id) ==
    [id |-> id, email |-> users[id].email, name |-> users[id].name,
     role |-> users[id].role]

\* BookingPublic of the row with primary key id.
BookingPublic(tbl, id) ==
    [id |-> id, class_id |-> tbl[id].class_id, member_id |-> tbl[id].member_id]

(***************************************************************************)
(* auth.py                                                                 *)
(***************************************************************************)
SECRET_KEY == "fallback-key-for-local-testing-only"

ACCESS_TOKEN_EXPIRE_MINUTES == 60

\* timedelta(minutes = m), in seconds.
timedelta(m) == m * 60

\* pwd_context.hash: a bcrypt digest embeds its salt.
Salts == {"s1"}

get_password_hash(password, salt) ==
    [scheme |-> "bcrypt", salt |-> salt, digest |-> <<salt, password>>]

\* A faulty verify_password: only the scheme of the digest is looked at.
verify_password_scheme_only(plain_password, hashed_password) ==
    hashed_password.scheme = "bcrypt"

\* pwd_context.verify: recompute with the digest's own salt and compare.
verify_password(plain_password, hashed_password) ==
    get_password_hash(plain_password, hashed_password.salt) = hashed_password

\* HS256 over the claims: a value only the holder of the key can produce.
Sign(claims, key) ==
    <<"HS256", key, claims.sub, claims.roles, claims.exp, claims.iat>>

Claims(token) ==
    [sub |-> token.sub, roles |-> token.roles, exp |-> token.exp,
     iat |-> token.iat]

\* jwt.encode(to_encode, SECRET_KEY, algorithm = ALGORITHM)
JwtEncode(claims, key) ==
    [sub |-> claims.sub, roles |-> claims.roles, exp |-> claims.exp,
     iat |-> claims.iat, sig |-> Sign(claims, key)]

\* A faulty create_access_token: the payload starts empty instead of from a
\* copy of data, so the token carries no "sub" claim.
create_access_token_no_sub(data, expires_delta, t) ==
    LET expire == IF expires_delta # <<>> /\ expires_delta[1] # 0
                  THEN t + expires_delta[1]
                  ELSE t + timedelta(ACCESS_TOKEN_EXPIRE_MINUTES)
    IN [sub |-> "<none>", roles |-> data.roles, exp |-> expire, iat |-> t,
        sig |-> <<"HS256", "fallback-key-for-local-testing-only", "<none>",
                  data.roles, expire, t>>]

\* create_access_token(data, expires_delta) called at time t.  expires_delta
\* is <<>> (None) or <<seconds>>; a zero timedelta is falsy in Python.
create_access_token(data, expires_delta, t) ==
    LET expire == IF expires_delta # <<>> /\ expires_delta[1] # 0
                  THEN t + expires_delta[1]
                  ELSE t + timedelta(ACCESS_TOKEN_EXPIRE_MINUTES)
    IN JwtEncode([sub |-> data.sub, roles |-> data.roles, exp |-> expire,
                  iat |-> t], SECRET_KEY)

(***************************************************************************)
(* What a caller can put in the Authorization header.                      *)
(***************************************************************************)
\* No Authorization header at all.
NoToken == [bad |-> "absent"]

\* A bearer string that is not a JWT.
Garbage == [bad |-> "malformed"]

IsJwt(token) == token \notin {NoToken, Garbage}

\* The value of a payload without a "sub" claim (payload.get("sub") is None).
NoSub == "<none>"

AttackerKey == "attacker-key"

(***************************************************************************)
(* crud.py: queries                                                        *)
(***************************************************************************)
\* get_user_by_email: the id of the first row with that email, 0 for None.
get_user_by_email(email) ==
    IF \E i \in 1..Len(users) : users[i].email = email
    THEN CHOOSE i \in 1..Len(users) :
            /\ users[i].email = email
            /\ \A j \in 1..(i - 1) : users[j].email # email
    ELSE 0

\* A faulty get_user_by_id: an id past the last row gives the last row.
get_user_by_id_clamped(user_id) ==
    IF user_id \in 1..Len(users) THEN user_id
    ELSE IF user_id > Len(users) THEN Len(users)
    ELSE 0

\* get_user_by_id: the id when the row exists, 0 for None.
get_user_by_id(user_id) == IF user_id \in 1..Len(users) THEN user_id ELSE 0

\* get_class_by_id: the id when the row exists, 0 for None.
get_class_by_id(class_id) ==
    IF class_id \in 1..Len(classes) THEN class_id ELSE 0

\* db.query(DBBooking).filter(DBBooking.class_id == class_id).count()
CountBookings(class_id) ==
    Cardinality({i \in 1..Len(bookings) : bookings[i].class_id = class_id})

\* A faulty get_bookings_by_member: the query has no filter.
get_bookings_by_member_all(member_id) ==
    {BookingPublic(bookings, i) : i \in 1..Len(bookings)}

\* get_bookings_by_member
get_bookings_by_member(member_id) ==
    {BookingPublic(bookings, i) :
        i \in {j \in 1..Len(bookings) : bookings[j].member_id = member_id}}

(***************************************************************************)
(* dependencies.py                                                         *)
(***************************************************************************)
credentials_exception ==
    [ok |-> FALSE, status |-> 401, detail |-> "Could not validate credentials"]

\* OAuth2PasswordBearer: a request without a bearer token is answered 401.
not_authenticated ==
    [ok |-> FALSE, status |-> 401, detail |-> "Not authenticated"]

\* A faulty jwt.decode: the claims are read without verifying the signature.
JwtDecodes_unverified(token, key, t) ==
    /\ IsJwt(token)
    /\ ~(token.exp < t)

\* jwt.decode(token, SECRET_KEY, algorithms = [ALGORITHM]) at time t: TRUE
\* when it returns the payload, FALSE when it raises JWTError.  python-jose
\* raises ExpiredSignatureError (a JWTError) when exp < now.
JwtDecodes(token, key, t) ==
    /\ IsJwt(token)
    /\ token.sig = Sign(Claims(token), key)
    /\ ~(token.exp < t)

\* A faulty get_current_user: the identity carries the role of the token's
\* roles claim instead of the role column of the account.
get_current_user_token_role(token, t) ==
    IF token = NoToken THEN not_authenticated
    ELSE IF ~JwtDecodes(token, SECRET_KEY, t) THEN credentials_exception
    ELSE IF token.sub = NoSub \/ token.roles = <<>> THEN credentials_exception
    ELSE IF get_user_by_email(token.sub) = 0 THEN credentials_exception
    ELSE [ok |-> TRUE,
          user |-> [UserPublic(get_user_by_email(token.sub))
                       EXCEPT !.role = token.roles[1]]]

\* A faulty get_current_user: an unknown subject and an expired token are
\* told apart from the other failures by the detail of the 401.
get_current_user_leaky(token, t) ==
    IF token = NoToken THEN not_authenticated
    ELSE IF IsJwt(token) /\ token.sig = Sign(Claims(token), SECRET_KEY)
                         /\ token.exp < t
    THEN [ok |-> FALSE, status |-> 401, detail |-> "Signature has expired"]
    ELSE IF ~JwtDecodes(token, SECRET_KEY, t) THEN credentials_exception
    ELSE IF token.sub = NoSub \/ token.roles = <<>> THEN credentials_exception
    ELSE IF get_user_by_email(token.sub) = 0
    THEN [ok |-> FALSE, status |-> 401, detail |-> "User not found"]
    ELSE [ok |-> TRUE, user |-> UserPublic(get_user_by_email(token.sub))]

\* get_current_user(db, token) at time t.
get_current_user(token, t) ==
    IF token = NoToken THEN not_authenticated
    ELSE IF ~JwtDecodes(token, SECRET_KEY, t) THEN credentials_exception
    ELSE IF token.sub = NoSub \/ token.roles = <<>> THEN credentials_exception
    ELSE IF get_user_by_email(token.sub) = 0 THEN credentials_exception
    ELSE [ok |-> TRUE, user |-> UserPublic(get_user_by_email(token.sub))]

\* The 403 of role_checker; its detail joins the required roles.
forbidden(required_roles) ==
    [ok |-> FALSE, status |-> 403,
     detail |-> IF required_roles = {"admin"}
                THEN "Not enough permissions. Required roles: admin"
                ELSE "Not enough permissions. Required roles: admin, trainer"]

\* A faulty role_checker: only the role "member" is ever refused.
role_checker_lenient(required_roles, token, t) ==
    LET current_user == get_current_user(token, t)
    IN IF ~current_user.ok THEN current_user
       ELSE IF current_user.user.role = "member"
                 /\ current_user.user.role \notin required_roles
            THEN forbidden(required_roles)
            ELSE current_user

\* A faulty role_checker: the role must be the whole allow-list
\* ([current_user.role] != required_roles) instead of a member of it.
role_checker_exact(required_roles, token, t) ==
    LET current_user == get_current_user(token, t)
    IN IF ~current_user.ok THEN current_user
       ELSE IF {current_user.user.role} # required_roles
            THEN forbidden(required_roles)
            ELSE current_user

\* A faulty role_checker: every authenticated caller is let through.
role_checker_any_authenticated(required_roles, token, t) ==
    get_current_user(token, t)

\* role_checker(required_roles)(current_user), after get_current_user.
role_checker(required_roles, token, t) ==
    LET current_user == get_current_user(token, t)
    IN IF ~current_user.ok THEN current_user
       ELSE IF current_user.user.role \notin required_roles
            THEN forbidden(required_roles)
            ELSE current_user

ADMIN_ONLY == {"admin"}

TRAINER_OR_ADMIN == {"admin", "trainer"}

(***************************************************************************)
(* The environment: accounts, credentials and requests callers send.       *)
(***************************************************************************)
AdminEmail == "admin@gym"

MemberEmail == "m1@gym"

UnknownEmail == "ghost@gym"

Emails == {AdminEmail, MemberEmail, UnknownEmail}

\* An administrator exists only when promoted directly in the database, as
\* the test helpers do (create_user, then role = "admin" and commit).
AdminSeed ==
    [email |-> AdminEmail, name |-> "n1",
     hashed_password |-> get_password_hash("p0", "s1"), role |-> "admin"]

\* Bodies of POST /register (schemas.UserCreate; role defaults to "member").
RegisterRequests ==
    {[email |-> MemberEmail, name |-> "n1", password |-> "p1", role |-> "member"],
     [email |-> MemberEmail, name |-> "n2", password |-> "p2", role |-> "admin"],
     [email |-> AdminEmail, name |-> "n2", password |-> "p2", role |-> "trainer"]}

\* A body of POST /register whose role is outside the Literal.
InvalidRegisterRequests ==
    {[email |-> MemberEmail, name |-> "n1", password |-> "p1", role |-> "owner"]}

\* Tokens made from a held token without the signing key.
Forged(token) ==
    IF ~IsJwt(token) THEN {}
    ELSE {[token EXCEPT !.sub = AdminEmail],
          [token EXCEPT !.roles = <<"admin">>],
          [token EXCEPT !.exp = token.exp + timedelta(ACCESS_TOKEN_EXPIRE_MINUTES)],
          [token EXCEPT !.sig = Sign(Claims(token), AttackerKey)]}
         \ {token}

\* A token an outsider mints for the administrator with a key of its own.
Minted(t) ==
    JwtEncode([sub |-> AdminEmail, roles |-> <<"admin">>,
               exp |-> t + timedelta(ACCESS_TOKEN_EXPIRE_MINUTES), iat |-> t],
              AttackerKey)

\* A token the application issued to an account that was removed since.
Orphaned(t) ==
    create_access_token([sub |-> UnknownEmail, roles |-> <<"member">>], <<>>, t)

\* What client c may present as its bearer token.
Presentable(c) ==
    {NoToken, Garbage, held[c], Minted(now), Orphaned(now)} \cup Forged(held[c])

Idle == [pc |-> "idle"]

NoResp == [client |-> "", op |-> "none", status |-> 0, detail |-> ""]

\* The HTTP response of an HTTPException e.
Failure(op, e) == [op |-> op, status |-> e.status, detail |-> e.detail]

Success(op, status, body) ==
    [op |-> op, status |-> status, detail |-> "", body |-> body]

\* Client c receives response r.
Respond(c, r) ==
    resp' = IF r.status \in {200, 201}
            THEN [client |-> c, op |-> r.op, status |-> r.status,
                  detail |-> r.detail, body |-> r.body]
            ELSE [client |-> c, op |-> r.op, status |-> r.status,
                  detail |-> r.detail]

(***************************************************************************)
(* main.py: POST /register                                                 *)
(***************************************************************************)
email_registered ==
    [status |-> 400, detail |-> "Email already registered"]

\* A faulty register_user: the email is not looked up before create_user.
register_user_begin_unchecked(user_data) ==
    [resp |-> NoResp,
     next |-> [pc |-> "create_user", user_data |-> user_data],
     users |-> users]

\* register_user up to the email lookup (main.py 26-30): the body is
\* validated as UserCreate, then the email is looked up; a failure, or the
\* request as it goes on to crud.create_user; and the users table it leaves.
register_user_begin(user_data) ==
    IF user_data.role \notin UserRole
    THEN [resp |-> Failure("register", unprocessable), next |-> Idle,
          users |-> users]
    ELSE IF get_user_by_email(user_data.email) # 0
    THEN [resp |-> Failure("register", email_registered), next |-> Idle,
          users |-> users]
    ELSE [resp |-> NoResp,
          next |-> [pc |-> "create_user", user_data |-> user_data],
          users |-> users]

RegisterBegin(c, user_data) ==
    /\ inflight[c] = Idle
    /\ LET r == register_user_begin(user_data)
       IN /\ inflight' = [inflight EXCEPT ![c] = r.next]
          /\ users' = r.users
          /\ IF r.next = Idle THEN Respond(c, r.resp) ELSE UNCHANGED resp
    /\ UNCHANGED <<classes, bookings, now, held>>

\* A faulty create_user: the role of the request body is stored.
create_user_keeps_role(user, salt) ==
    [email |-> user.email, name |-> user.name,
     hashed_password |-> get_password_hash(user.password, salt),
     role |-> user.role]

\* The row crud.create_user adds: the role is fixed to "member".
create_user(user, salt) ==
    [email |-> user.email, name |-> user.name,
     hashed_password |-> get_password_hash(user.password, salt),
     role |-> "member"]

\* crud.create_user and the response (main.py 32-33).  users.email is
\* UNIQUE: the commit of a second row with the email raises IntegrityError,
\* which nothing handles (500).
RegisterCommit(c, salt) ==
    /\ inflight[c].pc = "create_user"
    /\ LET user == inflight[c].user_data
           new_user == create_user(user, salt)
       IN IF get_user_by_email(user.email) # 0
          THEN /\ Respond(c, Failure("register",
                      [status |-> 500, detail |-> "Internal Server Error"]))
               /\ UNCHANGED users
          ELSE /\ users' = Append(users, new_user)
               /\ Respond(c, Success("register", 201,
                      [id |-> Len(users) + 1, email |-> new_user.email,
                       name |-> new_user.name, role |-> new_user.role]))
    /\ inflight' = [inflight EXCEPT ![c] = Idle]
    /\ UNCHANGED <<classes, bookings, now, held>>

(***************************************************************************)
(* main.py: POST /token                                                    *)
(***************************************************************************)
incorrect_login ==
    [status |-> 401, detail |-> "Incorrect username or password"]

\* login_for_access_token at time t: the response.
login_response(username, password, t) ==
    LET user == get_user_by_email(username)
    IN IF user = 0 \/ ~verify_password(password, users[user].hashed_password)
       THEN Failure("token", incorrect_login)
       ELSE Success("token", 200,
                create_access_token(
                    [sub |-> users[user].email, roles |-> <<users[user].role>>],
                    <<timedelta(ACCESS_TOKEN_EXPIRE_MINUTES)>>, t))

\* POST /token; the client keeps the token it is given.
login_for_access_token(c, username, password) ==
    /\ inflight[c] = Idle
    /\ LET r == login_response(username, password, now)
       IN /\ Respond(c, r)
          /\ held' = IF r.status = 200 THEN [held EXCEPT ![c] = r.body] ELSE held
    /\ UNCHANGED <<users, classes, bookings, now, inflight>>

(***************************************************************************)
(* main.py: GET /users/me and GET /trainer-data                            *)
(***************************************************************************)
read_users_me_response(token, t) ==
    LET current_user == get_current_user(token, t)
    IN IF ~current_user.ok THEN Failure("me", current_user)
       ELSE Success("me", 200, current_user.user)

read_users_me(c, token) ==
    /\ inflight[c] = Idle
    /\ Respond(c, read_users_me_response(token, now))
    /\ UNCHANGED <<users, classes, bookings, now, held, inflight>>

get_trainer_data_response(token, t) ==
    LET guard == role_checker(TRAINER_OR_ADMIN, token, t)
    IN IF ~guard.ok THEN Failure("trainer-data", guard)
       ELSE Success("trainer-data", 200,
                "Access to trainer-specific schedules and client notes.")

get_trainer_data(c, token) ==
    /\ inflight[c] = Idle
    /\ Respond(c, get_trainer_data_response(token, now))
    /\ UNCHANGED <<users, classes, bookings, now, held, inflight>>

(***************************************************************************)
(* main.py: PATCH /admin/update-role/{user_id}                             *)
(***************************************************************************)
\* A faulty update_user_role: the role is written before the guard's
\* verdict is looked at.
update_user_role_result_unguarded(token, user_id, role, t) ==
    LET guard == role_checker(ADMIN_ONLY, token, t)
        db_user == get_user_by_id(user_id)
        written == IF db_user = 0 THEN users
                   ELSE [users EXCEPT ![db_user].role = role]
    IN IF ~guard.ok
       THEN [resp |-> Failure("update-role", guard), users |-> written]
       ELSE IF db_user = 0
       THEN [resp |-> Failure("update-role",
                         [status |-> 404, detail |-> "User not found"]),
             users |-> users]
       ELSE [resp |-> Success("update-role", 200,
                         [id |-> db_user, email |-> users[db_user].email,
                          name |-> users[db_user].name, role |-> role]),
             users |-> written]

\* A faulty update_user_role: the UPDATE has no WHERE clause, every row
\* gets the role.
update_user_role_result_all_rows(token, user_id, role, t) ==
    LET guard == role_checker(ADMIN_ONLY, token, t)
        db_user == get_user_by_id(user_id)
    IN IF ~guard.ok
       THEN [resp |-> Failure("update-role", guard), users |-> users]
       ELSE IF db_user = 0
       THEN [resp |-> Failure("update-role",
                         [status |-> 404, detail |-> "User not found"]),
             users |-> users]
       ELSE [resp |-> Success("update-role", 200,
                         [id |-> db_user, email |-> users[db_user].email,
                          name |-> users[db_user].name, role |-> role]),
             users |-> [j \in 1..Len(users) |-> [users[j] EXCEPT !.role = role]]]

\* A faulty update_user_role: the role of the body is a plain str, not the
\* Literal, and is stored as it comes.
update_user_role_result_unvalidated(token, user_id, role, t) ==
    LET guard == role_checker(ADMIN_ONLY, token, t)
        db_user == get_user_by_id(user_id)
    IN IF ~guard.ok
       THEN [resp |-> Failure("update-role", guard), users |-> users]
       ELSE IF db_user = 0
       THEN [resp |-> Failure("update-role",
                         [status |-> 404, detail |-> "User not found"]),
             users |-> users]
       ELSE [resp |-> Success("update-role", 200,
                         [id |-> db_user, email |-> users[db_user].email,
                          name |-> users[db_user].name, role |-> role]),
             users |-> [users EXCEPT ![db_user].role = role]]

\* update_user_role at time t: the response and the users table it leaves.
\* The guard is a dependency of the route and is solved before the body's
\* validation errors are raised.
update_user_role_result(token, user_id, role, t) ==
    LET guard == role_checker(ADMIN_ONLY, token, t)
        db_user == get_user_by_id(user_id)
    IN IF ~guard.ok
       THEN [resp |-> Failure("update-role", guard), users |-> users]
       ELSE IF role \notin UserRole
       THEN [resp |-> Failure("update-role", unprocessable), users |-> users]
       ELSE IF db_user = 0
       THEN [resp |-> Failure("update-role",
                         [status |-> 404, detail |-> "User not found"]),
             users |-> users]
       ELSE [resp |-> Success("update-role", 200,
                         [id |-> db_user, email |-> users[db_user].email,
                          name |-> users[db_user].name, role |-> role]),
             users |-> [users EXCEPT ![db_user].role = role]]

update_user_role(c, token, user_id, role) ==
    /\ inflight[c] = Idle
    /\ LET r == update_user_role_result(token, user_id, role, now)
       IN /\ Respond(c, r.resp)
          /\ users' = r.users
    /\ UNCHANGED <<classes, bookings, now, held, inflight>>

(***************************************************************************)
(* main.py: POST /classes                                                  *)
(***************************************************************************)
\* create_new_class at time t: the response and the classes table it leaves.
create_new_class_result(token, trainer_id, max_capacity, t) ==
    LET guard == role_checker(TRAINER_OR_ADMIN, token, t)
    IN IF ~guard.ok
       THEN [resp |-> Failure("create-class", guard), classes |-> classes]
       ELSE [resp |-> Success("create-class", 201,
                         [id |-> Len(classes) + 1, trainer_id |-> trainer_id,
                          max_capacity |-> max_capacity]),
             classes |-> Append(classes,
                         [trainer_id |-> trainer_id,
                          max_capacity |-> max_capacity])]

create_new_class(c, token, trainer_id, max_capacity) ==
    /\ inflight[c] = Idle
    /\ LET r == create_new_class_result(token, trainer_id, max_capacity, now)
       IN /\ Len(r.classes) <= MaxClasses
          /\ Respond(c, r.resp)
          /\ classes' = r.classes
    /\ UNCHANGED <<users, bookings, now, held, inflight>>

(***************************************************************************)
(* main.py: POST /bookings, split at the statements of crud.create_booking *)
(***************************************************************************)
\* A faulty book_class_begin: the member_id of the body is not compared
\* with the caller, and the booking is made for the caller.
book_class_begin_rebound(token, class_id, member_id, t) ==
    LET current_user == get_current_user(token, t)
        gym_class == get_class_by_id(class_id)
    IN IF ~current_user.ok
       THEN [resp |-> Failure("book", current_user), next |-> Idle]
       ELSE IF gym_class = 0
       THEN [resp |-> Failure("book",
                         [status |-> 404, detail |-> "Class not found."]),
             next |-> Idle]
       ELSE [resp |-> NoResp,
             next |-> [pc |-> "count", class_id |-> class_id,
                       member_id |-> current_user.user.id,
                       max_capacity |-> classes[gym_class].max_capacity]]

\* A faulty book_class_begin: a missing class is reported like a full one.
book_class_begin_conflates(token, class_id, member_id, t) ==
    LET current_user == get_current_user(token, t)
        gym_class == get_class_by_id(class_id)
    IN IF ~current_user.ok
       THEN [resp |-> Failure("book", current_user), next |-> Idle]
       ELSE IF member_id # current_user.user.id
       THEN [resp |-> Failure("book",
                         [status |-> 403,
                          detail |-> "Cannot book for another user."]),
             next |-> Idle]
       ELSE IF gym_class = 0
       THEN [resp |-> Failure("book",
                         [status |-> 409, detail |-> "Class is fully booked."]),
             next |-> Idle]
       ELSE [resp |-> NoResp,
             next |-> [pc |-> "count", class_id |-> class_id,
                       member_id |-> current_user.user.id,
                       max_capacity |-> classes[gym_class].max_capacity]]

\* book_class up to the class lookup (main.py 118-119, crud.py 67-69) at
\* time t: a failure, or the request as it goes on to the count query.
book_class_begin(token, class_id, member_id, t) ==
    LET current_user == get_current_user(token, t)
        gym_class == get_class_by_id(class_id)
    IN IF ~current_user.ok
       THEN [resp |-> Failure("book", current_user), next |-> Idle]
       ELSE IF member_id # current_user.user.id
       THEN [resp |-> Failure("book",
                         [status |-> 403,
                          detail |-> "Cannot book for another user."]),
             next |-> Idle]
       ELSE IF gym_class = 0
       THEN [resp |-> Failure("book",
                         [status |-> 404, detail |-> "Class not found."]),
             next |-> Idle]
       ELSE [resp |-> NoResp,
             next |-> [pc |-> "count", class_id |-> class_id,
                       member_id |-> current_user.user.id,
                       max_capacity |-> classes[gym_class].max_capacity]]

BookBegin(c, token, class_id, member_id) ==
    /\ inflight[c] = Idle
    /\ LET r == book_class_begin(token, class_id, member_id, now)
       IN /\ inflight' = [inflight EXCEPT ![c] = r.next]
          /\ IF r.next = Idle THEN Respond(c, r.resp) ELSE UNCHANGED resp
    /\ UNCHANGED <<users, classes, bookings, now, held>>

\* The count query (crud.py 72).
BookCount(c) ==
    /\ inflight[c].pc = "count"
    /\ inflight' = [inflight EXCEPT ![c] =
           [pc |-> "check", class_id |-> inflight[c].class_id,
            member_id |-> inflight[c].member_id,
            max_capacity |-> inflight[c].max_capacity,
            current_bookings |-> CountBookings(inflight[c].class_id)]]
    /\ UNCHANGED <<users, classes, bookings, now, held, resp>>

\* A faulty book_class_finish: the insert replaces the rows of the table.
book_class_finish_replaces(rq) ==
    IF rq.current_bookings >= rq.max_capacity
    THEN [resp |-> Failure("book",
                      [status |-> 409, detail |-> "Class is fully booked."]),
          bookings |-> bookings]
    ELSE [resp |-> Success("book", 201,
                      [id |-> 1, class_id |-> rq.class_id,
                       member_id |-> rq.member_id]),
          bookings |-> <<[class_id |-> rq.class_id, member_id |-> rq.member_id]>>]

\* A faulty book_class_finish: the count is compared with > instead of >=.
book_class_finish_strict(rq) ==
    IF rq.current_bookings > rq.max_capacity
    THEN [resp |-> Failure("book",
                      [status |-> 409, detail |-> "Class is fully booked."]),
          bookings |-> bookings]
    ELSE [resp |-> Success("book", 201,
                      [id |-> Len(bookings) + 1, class_id |-> rq.class_id,
                       member_id |-> rq.member_id]),
          bookings |-> Append(bookings,
                      [class_id |-> rq.class_id, member_id |-> rq.member_id])]

\* The comparison, the insert and the commit (crud.py 74-82, main.py
\* 126-132) of request rq: the response and the bookings table it leaves.
book_class_finish(rq) ==
    IF rq.current_bookings >= rq.max_capacity
    THEN [resp |-> Failure("book",
                      [status |-> 409, detail |-> "Class is fully booked."]),
          bookings |-> bookings]
    ELSE [resp |-> Success("book", 201,
                      [id |-> Len(bookings) + 1, class_id |-> rq.class_id,
                       member_id |-> rq.member_id]),
          bookings |-> Append(bookings,
                      [class_id |-> rq.class_id, member_id |-> rq.member_id])]

BookInsert(c) ==
    /\ inflight[c].pc = "check"
    /\ LET r == book_class_finish(inflight[c])
       IN /\ Respond(c, r.resp)
          /\ bookings' = r.bookings
    /\ inflight' = [inflight EXCEPT ![c] = Idle]
    /\ UNCHANGED <<users, classes, now, held>>

(***************************************************************************)
(* crud.create_booking as one call, run without interleaving.              *)
(***************************************************************************)
\* database.py: the database is PostgreSQL when DATABASE_URL says so and
\* the SQLite file otherwise.
Backends == {"sqlite", "postgresql"}

\* The ForeignKey columns of models.py are enforced by PostgreSQL; SQLite
\* ignores them unless PRAGMA foreign_keys = ON is issued, which database.py
\* does not do.
foreign_keys_enforced(backend) == backend = "postgresql"

\* create_booking(db, class_id, member_id): what it returns (None,
\* "Capacity Full", the new row, or the IntegrityError of the commit) and
\* the bookings table it leaves.
create_booking(class_id, member_id, backend) ==
    LET gym_class == get_class_by_id(class_id)
        current_bookings == CountBookings(class_id)
    IN IF gym_class = 0
       THEN [result |-> "None", bookings |-> bookings]
       ELSE IF current_bookings >= classes[gym_class].max_capacity
       THEN [result |-> "Capacity Full", bookings |-> bookings]
       ELSE IF foreign_keys_enforced(backend) /\ get_user_by_id(member_id) = 0
       THEN [result |-> "IntegrityError", bookings |-> bookings]
       ELSE [result |-> "DBBooking",
             bookings |-> Append(bookings,
                         [class_id |-> class_id, member_id |-> member_id])]

(***************************************************************************)
(* main.py: GET /users/me/bookings                                         *)
(***************************************************************************)
get_my_bookings_response(token, t) ==
    LET current_user == get_current_user(token, t)
    IN IF ~current_user.ok THEN Failure("my-bookings", current_user)
       ELSE Success("my-bookings", 200,
                get_bookings_by_member(current_user.user.id))

get_my_bookings(c, token) ==
    /\ inflight[c] = Idle
    /\ Respond(c, get_my_bookings_response(token, now))
    /\ UNCHANGED <<users, classes, bookings, now, held, inflight>>

(***************************************************************************)
(* Time passes: to the expiry of a held token, or one second past it.      *)
(***************************************************************************)
Tick ==
    /\ \E c \in Clients, d \in {0, 1} :
          /\ IsJwt(held[c])
          /\ now' = held[c].exp + d
    /\ now' > now
    /\ now' <= MaxTime
    /\ UNCHANGED <<users, classes, bookings, held, inflight, resp>>

(***************************************************************************)
(* Spec: accounts, credentials and the role guard.  The database starts    *)
(* empty, or with the promoted administrator.                              *)
(***************************************************************************)
Init ==
    /\ users \in {<<>>, <<AdminSeed>>}
    /\ classes = <<>>
    /\ bookings = <<>>
    /\ now = 0
    /\ held = [c \in Clients |-> NoToken]
    /\ inflight = [c \in Clients |-> Idle]
    /\ resp = NoResp

Next ==
    \/ \E c \in Clients, user_data \in RegisterRequests \cup InvalidRegisterRequests :
          RegisterBegin(c, user_data)
    \/ \E c \in Clients, salt \in Salts : RegisterCommit(c, salt)
    \/ \E c \in Clients, username \in Emails, password \in Passwords :
          login_for_access_token(c, username, password)
    \/ \E c \in Clients : \E token \in Presentable(c) : read_users_me(c, token)
    \/ \E c \in Clients : \E token \in Presentable(c) : get_trainer_data(c, token)
    \/ \E c \in Clients : \E token \in Presentable(c) :
          \E user_id \in 1..(Len(users) + 1), role \in RoleInputs :
             update_user_role(c, token, user_id, role)

Spec == Init /\ [][Next]_vars

(***************************************************************************)
(* SpecClock: the two accounts of a deployment log in and present their    *)
(* tokens while time passes.                                               *)
(***************************************************************************)
MemberSeed == create_user(CHOOSE r \in RegisterRequests : r.name = "n1", "s1")

InitClock ==
    /\ users = <<AdminSeed, MemberSeed>>
    /\ classes = <<>>
    /\ bookings = <<>>
    /\ now = 0
    /\ held = [c \in Clients |-> NoToken]
    /\ inflight = [c \in Clients |-> Idle]
    /\ resp = NoResp

NextClock ==
    \/ \E c \in Clients, username \in Emails, password \in Passwords :
          login_for_access_token(c, username, password)
    \/ \E c \in Clients : \E token \in Presentable(c) : read_users_me(c, token)
    \/ \E c \in Clients : \E token \in Presentable(c) : get_trainer_data(c, token)
    \/ Tick

SpecClock == InitClock /\ [][NextClock]_vars

(***************************************************************************)
(* SpecLedger: the protected operations of a deployment whose two accounts *)
(* are logged in, one client each; the tokens were issued at time 0 and    *)
(* the clock reads 0, or one second past their expiry.                     *)
(***************************************************************************)
SeedToken(user) ==
    login_response(user.email, user.hashed_password.digest[2], 0).body

InitLedger ==
    /\ users = <<AdminSeed, MemberSeed>>
    /\ classes = <<>>
    /\ bookings = <<>>
    /\ held = [c \in Clients |->
                  IF c = "c1" THEN SeedToken(AdminSeed) ELSE SeedToken(MemberSeed)]
    /\ now \in {0, timedelta(ACCESS_TOKEN_EXPIRE_MINUTES) + 1}
    /\ inflight = [c \in Clients |-> Idle]
    /\ resp = NoResp

NextLedger ==
    \/ \E c \in Clients : \E token \in Presentable(c) : read_users_me(c, token)
    \/ \E c \in Clients : \E token \in Presentable(c) :
          \E user_id \in 2..(Len(users) + 1), role \in UserRole :
             update_user_role(c, token, user_id, role)
    \/ \E c \in Clients : \E token \in Presentable(c) :
          \E trainer_id \in TrainerIds, max_capacity \in Capacities :
             create_new_class(c, token, trainer_id, max_capacity)
    \/ \E c \in Clients : \E token \in Presentable(c) :
          \E class_id \in 1..(Len(classes) + 1), member_id \in 1..Len(users) :
             BookBegin(c, token, class_id, member_id)
    \/ \E c \in Clients : BookCount(c)
    \/ \E c \in Clients : BookInsert(c)
    \/ \E c \in Clients : \E token \in Presentable(c) : get_my_bookings(c, token)

SpecLedger == InitLedger /\ [][NextLedger]_vars

(***************************************************************************)
(* Properties of the booking ledger and of the protected operations,       *)
(* checked under SpecLedger.                                                *)
(***************************************************************************)
ClassIds == 1..Len(classes)

UserIds == 1..Len(users)

IsResp(op, status) == resp.op = op /\ resp.status = status

\* C1: in every reachable state, every class has at most max_capacity
\* committed bookings, also when create_booking calls run concurrently.
C1_CapacityInvariant ==
    \A R \in ClassIds : CountBookings(R) <= classes[R].max_capacity

\* C2: for a class of capacity N >= 1 that starts without bookings, calls by
\* distinct accounts end with exactly N successes: a call is answered 201
\* only while the class, its booking included, holds at most N bookings, and
\* a call is answered Capacity Full only when N bookings are committed.
C2_ExactlyNSucceed ==
    /\ IsResp("book", 201) =>
          LET R == resp.body.class_id
          IN classes[R].max_capacity >= 1
                => CountBookings(R) <= classes[R].max_capacity
    /\ \A c \in Clients :
          (/\ inflight[c].pc = "check"
           /\ inflight[c].max_capacity >= 1
           /\ book_class_finish(inflight[c]).resp.status = 409)
             => CountBookings(inflight[c].class_id) >= inflight[c].max_capacity

\* The account a client is authenticated as with the token it holds.
Caller(c) == get_user_by_email(held[c].sub)

\* C3: a caller authenticated as A that asks for a booking with member_id
\* B # A is answered 403 and the request ends there, without a booking for
\* A or for B; every booking in flight or just committed is for its caller.
C3_SelfBooking ==
    /\ \A c \in Clients : \A token \in Presentable(c) :
          \A class_id \in 1..(Len(classes) + 1), member_id \in 1..(Len(users) + 1) :
             LET current_user == get_current_user(token, now)
                 r == book_class_begin(token, class_id, member_id, now)
             IN (current_user.ok /\ member_id # current_user.user.id)
                   => /\ r.resp.status = 403
                      /\ r.next = Idle
    /\ \A c \in Clients :
          inflight[c].pc \in {"count", "check"}
             => inflight[c].member_id = Caller(c)
    /\ IsResp("book", 201) => resp.body.member_id = Caller(resp.client)

\* C3 witness: the member asked for a booking for the administrator and was
\* answered 403.
C3_Witness ==
    /\ IsResp("book", 403)
    /\ resp.client = "c2"
    /\ get_current_user(held["c2"], now).ok
    /\ bookings = <<>>

\* C5: for every protected operation (profile, update role, create class,
\* create booking, list own bookings) a failed authentication is answered
\* 401 and a failed role guard 403, and the operation leaves users, classes
\* and bookings as they were and starts no booking.
C5_ShortCircuit ==
    \A c \in Clients : \A token \in Presentable(c) :
       LET current_user == get_current_user(token, now)
           denied(roles) == current_user.ok /\ current_user.user.role \notin roles
       IN /\ ~current_user.ok =>
                /\ read_users_me_response(token, now).status = 401
                /\ get_my_bookings_response(token, now).status = 401
          /\ \A user_id \in 1..(Len(users) + 1), role \in UserRole :
                LET r == update_user_role_result(token, user_id, role, now)
                IN /\ ~current_user.ok => r.resp.status = 401 /\ r.users = users
                   /\ denied({"admin"}) => r.resp.status = 403 /\ r.users = users
          /\ \A trainer_id \in TrainerIds, max_capacity \in Capacities :
                LET r == create_new_class_result(token, trainer_id, max_capacity, now)
                IN /\ ~current_user.ok => r.resp.status = 401 /\ r.classes = classes
                   /\ denied({"admin", "trainer"})
                         => r.resp.status = 403 /\ r.classes = classes
          /\ \A class_id \in 1..(Len(classes) + 1), member_id \in 1..(Len(users) + 1) :
                LET r == book_class_begin(token, class_id, member_id, now)
                IN ~current_user.ok => r.resp.status = 401 /\ r.next = Idle

\* C5 witness: the member, with a token that authenticates, asked for a role
\* update and was answered 403 while some class and booking exist.
C5_Witness ==
    /\ IsResp("update-role", 403)
    /\ get_current_user(held[resp.client], now).ok
    /\ classes # <<>>
    /\ bookings # <<>>

(***************************************************************************)
(* Properties of accounts, tokens and the role guard, checked under Spec.  *)
(***************************************************************************)
\* The account a token names, 0 when there is none.
Subject(token) == IF IsJwt(token) THEN get_user_by_email(token.sub) ELSE 0

C6_Guard ==
    \A c \in Clients : \A token \in Presentable(c) :
       LET current_user == get_current_user(token, now)
           through(r) == r.status \notin {401, 403}
       IN current_user.ok =>
             /\ \A user_id \in 1..(Len(users) + 1), role \in UserRole :
                   LET r == update_user_role_result(token, user_id, role, now).resp
                   IN /\ through(r) <=> current_user.user.role \in {"admin"}
                      /\ ~through(r) => r.status = 403
             /\ \A trainer_id \in TrainerIds, max_capacity \in Capacities :
                   LET r == create_new_class_result(token, trainer_id,
                                                    max_capacity, now).resp
                   IN /\ through(r) <=> current_user.user.role \in {"admin", "trainer"}
                      /\ ~through(r) => r.status = 403
             /\ LET r == get_trainer_data_response(token, now)
                IN /\ through(r) <=> current_user.user.role \in {"admin", "trainer"}
                   /\ ~through(r) => r.status = 403

\* C6 witness: a trainer asked for a role update and was answered 403.
C6_Witness ==
    /\ IsResp("update-role", 403)
    /\ get_current_user(held[resp.client], now).ok
    /\ users[Subject(held[resp.client])].role = "trainer"

\* C7: whatever role a register request carries, the account that is stored
\* and the account that is returned have the role "member".
C7_RegisterForcesMember ==
    /\ \A c \in Clients :
          inflight[c].pc = "create_user" =>
             \A salt \in Salts :
                create_user(inflight[c].user_data, salt).role = "member"
    /\ IsResp("register", 201) =>
          /\ resp.body.role = "member"
          /\ resp.body.id \in UserIds
          /\ users[resp.body.id].email = resp.body.email
          /\ users[resp.body.id].role = "member"

\* C7 witness: the request that asked for the role "admin" was answered 201.
C7_Witness ==
    /\ IsResp("register", 201)
    /\ \E r \in RegisterRequests :
          /\ r.role = "admin"
          /\ r.email = resp.body.email
          /\ r.name = resp.body.name

\* C8: a register call for an email that is already registered is answered
\* 400 "Email already registered", goes no further, and leaves the users
\* table as it was; no two accounts share an email.
C8_DuplicateRegistration ==
    /\ \A user_data \in RegisterRequests :
          get_user_by_email(user_data.email) # 0 =>
             LET r == register_user_begin(user_data)
             IN /\ r.resp.status = 400
                /\ r.resp.detail = "Email already registered"
                /\ r.next = Idle
                /\ r.users = users
    /\ \A i, j \in UserIds : users[i].email = users[j].email => i = j

\* C8 witness: a register call for the member's email, made when the email
\* was registered already, was answered 400.
C8_Witness ==
    /\ IsResp("register", 400)
    /\ \E i \in UserIds :
          /\ users[i].email = MemberEmail
          /\ users[i].name = "n2"

\* The tokens the application has issued: those the clients hold, and the
\* token of the removed account.
IssuedTokens == {held[c] : c \in Clients} \cup {Orphaned(now)}

\* C10: a token that differs from every token the issuer produced (forged
\* subject, role or expiry, a signature by another key, a string that is no
\* token) is answered 401 by authenticate and yields no identity.
C10_TamperEvident ==
    \A c \in Clients : \A token \in Presentable(c) \ IssuedTokens :
       LET r == get_current_user(token, now)
       IN /\ ~r.ok
          /\ r.status = 401
          /\ read_users_me_response(token, now).status = 401

\* C10 witness: a client that holds a token that authenticates presented
\* another bearer string and was answered 401.
C10_Witness ==
    /\ IsResp("me", 401)
    /\ resp.detail = "Could not validate credentials"
    /\ get_current_user(held[resp.client], now).ok
    /\ \E token \in Forged(held[resp.client]) : ~get_current_user(token, now).ok

(***************************************************************************)
(* Properties of token expiry, checked under SpecClock.                    *)
(***************************************************************************)
\* C9: a token presented at a time at or after its exp is answered 401 even
\* though its signature is valid and its subject exists; a token is
\* accepted only strictly before exp.
C9_ExpiredRejected ==
    \A c \in Clients :
       (IsJwt(held[c]) /\ now >= held[c].exp)
          => /\ ~get_current_user(held[c], now).ok
             /\ read_users_me_response(held[c], now).status = 401

(***************************************************************************)
(* Properties of issuing and authenticating tokens, checked under Spec.    *)
(***************************************************************************)
\* The expires_delta arguments of create_access_token: None, a zero
\* timedelta, a minute, and the hour the login passes.
Lifetimes == {<<>>, <<0>>, <<timedelta(1)>>, <<timedelta(ACCESS_TOKEN_EXPIRE_MINUTES)>>}

\* The times, from t on, that lie strictly before the expiry of a token.
BeforeExpiry(token, t) == {u \in {t, token.exp - 1} : t <= u /\ u < token.exp}

AuthFailures(t) ==
    {Garbage,
     Minted(t),
     create_access_token([sub |-> AdminEmail, roles |-> <<"admin">>], <<1>>, t - 2),
     create_access_token([sub |-> NoSub, roles |-> <<"admin">>], <<>>, t),
     create_access_token([sub |-> AdminEmail, roles |-> <<>>], <<>>, t),
     Orphaned(t)}

\* What a caller sees of a response.
Observable(r) == [status |-> r.status, detail |-> r.detail]

\* C12: every presented token that fails authentication (malformed, bad
\* signature, expired, no subject, no roles, unknown subject, and every
\* failing token a client can present) gets the same 401 with the same
\* detail from get_current_user and from every protected operation.
C12_UniformFailure ==
    LET failing == AuthFailures(now)
                   \cup {token \in UNION {Presentable(c) \ {NoToken} : c \in Clients} :
                            ~get_current_user(token, now).ok}
        seen == [status |-> 401, detail |-> "Could not validate credentials"]
    IN \A token \in failing :
          /\ get_current_user(token, now) = credentials_exception
          /\ Observable(read_users_me_response(token, now)) = seen
          /\ Observable(get_trainer_data_response(token, now)) = seen
          /\ Observable(get_my_bookings_response(token, now)) = seen
          /\ \A user_id \in 1..(Len(users) + 1), role \in UserRole :
                Observable(update_user_role_result(token, user_id, role, now).resp) = seen
          /\ \A trainer_id \in TrainerIds, max_capacity \in Capacities :
                Observable(create_new_class_result(token, trainer_id,
                                                   max_capacity, now).resp) = seen
          /\ \A class_id \in 1..(Len(classes) + 1), member_id \in 1..(Len(users) + 1) :
                Observable(book_class_begin(token, class_id, member_id, now).resp) = seen

\* C12 witness: a client whose own token has expired was answered the 401,
\* at a time when its token, a malformed one and a forged one all fail.
C12_Witness ==
    /\ IsResp("me", 401)
    /\ resp.detail = "Could not validate credentials"
    /\ IsJwt(held[resp.client])
    /\ held[resp.client].exp < now
    /\ get_user_by_email(held[resp.client].sub) # 0

(***************************************************************************)
(* Properties of login, checked under Spec.                                *)
(***************************************************************************)
\* The password an account was registered with (digest rows keep it as
\* their second component).
RegisteredPassword(i) == users[i].hashed_password.digest[2]

\* C13: login answers 200 with a signed token exactly when an account with
\* the email exists and the password is the one it was registered with;
\* every other login is answered the same 401 and carries no token.  The
\* token names the account's email and the one role stored at login time,
\* and the client that logged in holds exactly that token.
C13_Login ==
    /\ \A username \in Emails, password \in Passwords :
          LET r == login_response(username, password, now)
              known == \E i \in UserIds : /\ users[i].email = username
                                           /\ RegisteredPassword(i) = password
          IN /\ r.status = 200 <=> known
             /\ r.status # 200 =>
                   r = [op |-> "token", status |-> 401,
                        detail |-> "Incorrect username or password"]
             /\ r.status = 200 =>
                   LET i == get_user_by_email(username)
                   IN /\ r.body.sub = username
                      /\ r.body.roles = <<users[i].role>>
                      /\ r.body.exp = now + timedelta(ACCESS_TOKEN_EXPIRE_MINUTES)
                      /\ JwtDecodes(r.body, SECRET_KEY, now)
    /\ IsResp("token", 200) => held[resp.client] = resp.body
    /\ IsResp("token", 401) => "body" \notin DOMAIN resp

\* C13 witness: an account that was made a trainer logged in and was issued
\* a token with the roles claim <<"trainer">>.
C13_Witness ==
    /\ IsResp("token", 200)
    /\ resp.body.roles = <<"trainer">>
    /\ resp.body.sub = MemberEmail
    /\ users[get_user_by_email(MemberEmail)].role = "trainer"

(***************************************************************************)
(* Properties of crud.create_booking run without interleaving, checked     *)
(* under SpecLedger.                                                       *)
(***************************************************************************)
\* C14: a create_booking call on an existing class whose booking count is
\* already at or above its capacity gives "Capacity Full", answered 409, and
\* leaves the bookings table as it was: for the function run in one piece,
\* for a request that counts now with no other request in flight, and for a
\* request whose count query already returned such a count.
C14_FullClass ==
    /\ \A class_id \in ClassIds, member_id \in UserIds, backend \in Backends :
          CountBookings(class_id) >= classes[class_id].max_capacity =>
             LET r == create_booking(class_id, member_id, backend)
             IN r.result = "Capacity Full" /\ r.bookings = bookings
    /\ \A c \in Clients :
          (/\ inflight[c].pc = "count"
           /\ \A d \in Clients \ {c} : inflight[d] = Idle
           /\ CountBookings(inflight[c].class_id) >= inflight[c].max_capacity) =>
             LET r == book_class_finish(
                         [class_id |-> inflight[c].class_id,
                          member_id |-> inflight[c].member_id,
                          max_capacity |-> inflight[c].max_capacity,
                          current_bookings |-> CountBookings(inflight[c].class_id)])
             IN r.resp.status = 409 /\ r.bookings = bookings
    /\ \A c \in Clients :
          (/\ inflight[c].pc = "check"
           /\ inflight[c].current_bookings >= inflight[c].max_capacity) =>
             LET r == book_class_finish(inflight[c])
             IN r.resp.status = 409 /\ r.bookings = bookings

\* C14 witness: a booking request was answered 409 for a class of capacity 1
\* that holds exactly one booking.
C14_Witness ==
    /\ IsResp("book", 409)
    /\ resp.detail = "Class is fully booked."
    /\ \E R \in ClassIds : classes[R].max_capacity = 1 /\ CountBookings(R) = 1
    /\ Len(bookings) = 1

\* C15: a self-booking request of an authenticated caller for a class id
\* that does not exist is answered 404 "Class not found." (not the 409 of a
\* full class), ends there, and create_booking returns None without
\* touching the bookings table.
C15_MissingClass ==
    \A c \in Clients : \A token \in Presentable(c) :
       LET current_user == get_current_user(token, now)
       IN current_user.ok =>
             \A class_id \in {0, Len(classes) + 1} :
                LET r == book_class_begin(token, class_id, current_user.user.id, now)
                IN /\ r.resp.status = 404
                   /\ r.resp.detail = "Class not found."
                   /\ r.next = Idle
                   /\ \A backend \in Backends :
                         LET q == create_booking(class_id, current_user.user.id, backend)
                         IN q.result = "None" /\ q.bookings = bookings

\* C15 witness: a caller that authenticates was answered 404 on a booking
\* request while a class exists and no booking was made.
C15_Witness ==
    /\ IsResp("book", 404)
    /\ get_current_user(held[resp.client], now).ok
    /\ classes # <<>>
    /\ bookings = <<>>

\* C18: crud.create_booking called with a member_id that is no account's id
\* fails and inserts no booking, whatever database the deployment uses.
C18_LedgerRejectsUnknownAccount ==
    \A class_id \in 1..(Len(classes) + 1), backend \in Backends :
       \A member_id \in {0, Len(users) + 1} :
          LET r == create_booking(class_id, member_id, backend)
          IN r.result # "DBBooking" /\ r.bookings = bookings

(***************************************************************************)
(* Properties of the role update, checked under Spec.                      *)
(***************************************************************************)
\* C16: when a caller whose role is admin updates the role of an existing
\* account to r, the answer is 200 with the account's view showing role r,
\* the stored role of the account is r, its email, name and password digest
\* are as before, and every other account is as before.
C16_RoleUpdateFrame ==
    \A c \in Clients : \A token \in Presentable(c) :
       LET current_user == get_current_user(token, now)
       IN (current_user.ok /\ current_user.user.role = "admin") =>
             \A user_id \in UserIds, role \in UserRole :
                LET r == update_user_role_result(token, user_id, role, now)
                IN /\ r.resp.status = 200
                   /\ r.resp.body = [id |-> user_id, email |-> users[user_id].email,
                                     name |-> users[user_id].name, role |-> role]
                   /\ Len(r.users) = Len(users)
                   /\ r.users[user_id].role = role
                   /\ r.users[user_id].email = users[user_id].email
                   /\ r.users[user_id].name = users[user_id].name
                   /\ r.users[user_id].hashed_password = users[user_id].hashed_password
                   /\ \A j \in UserIds \ {user_id} : r.users[j] = users[j]

\* C16 witness: the administrator made the second of two accounts a trainer
\* and was answered 200.
C16_Witness ==
    /\ IsResp("update-role", 200)
    /\ Len(users) = 2
    /\ resp.body.id = 2
    /\ resp.body.role = "trainer"
    /\ users[2].role = "trainer"
    /\ users[1].role = "admin"

\* C17: an admin's role update for an id that is no account's id is answered
\* 404 and leaves every account as it was; a caller that authenticates and
\* is not an admin is answered 403, the accounts left as they were, whether
\* or not the target exists.
C17_RoleUpdateErrors ==
    \A c \in Clients : \A token \in Presentable(c) :
       LET current_user == get_current_user(token, now)
       IN current_user.ok =>
             \A role \in UserRole :
                /\ current_user.user.role = "admin" =>
                      \A user_id \in {0, Len(users) + 1} :
                         LET r == update_user_role_result(token, user_id, role, now)
                         IN /\ r.resp.status = 404
                            /\ r.resp.detail = "User not found"
                            /\ r.users = users
                /\ current_user.user.role # "admin" =>
                      \A user_id \in 0..(Len(users) + 1) :
                         LET r == update_user_role_result(token, user_id, role, now)
                         IN r.resp.status = 403 /\ r.users = users

\* C17 witness: an administrator was answered 404 on a role update.
C17_Witness ==
    /\ IsResp("update-role", 404)
    /\ get_current_user(held[resp.client], now).ok
    /\ users[Subject(held[resp.client])].role = "admin"
    /\ Len(users) = 2

(***************************************************************************)
(* Properties of listing bookings, checked under SpecLedger.               *)
(***************************************************************************)
\* C19: for a caller authenticated as A, list-own-bookings answers 200 with
\* exactly the committed bookings whose member_id is A: every row of A is in
\* the list (a booking A was just answered 201 for included), every entry is
\* a row of A; and answering the request changes nothing but the response.
C19_ListOwnBookings ==
    /\ [](/\ \A c \in Clients : \A token \in Presentable(c) :
                LET current_user == get_current_user(token, now)
                    r == get_my_bookings_response(token, now)
                IN current_user.ok =>
                      /\ r.status = 200
                      /\ \A i \in 1..Len(bookings) :
                            bookings[i].member_id = current_user.user.id
                               <=> [id |-> i, class_id |-> bookings[i].class_id,
                                    member_id |-> bookings[i].member_id] \in r.body
                      /\ \A b \in r.body :
                            /\ b.member_id = current_user.user.id
                            /\ b.id \in 1..Len(bookings)
                            /\ bookings[b.id].class_id = b.class_id
                            /\ bookings[b.id].member_id = b.member_id
          /\ IsResp("book", 201) =>
                resp.body \in get_my_bookings_response(held[resp.client], now).body)
    /\ [][(resp'.op = "my-bookings" /\ resp' # resp)
             => UNCHANGED <<users, classes, bookings, now, held, inflight>>]_vars

\* C19 witness: with two bookings committed, one per account, a caller was
\* answered a list of exactly one booking.
C19_Witness ==
    /\ IsResp("my-bookings", 200)
    /\ Len(bookings) = 2
    /\ bookings[1].member_id # bookings[2].member_id
    /\ Cardinality(resp.body) = 1

(***************************************************************************)
(* Properties of the guard as a function of its allow-list, checked under  *)
(* Spec.                                                                   *)
(***************************************************************************)
\* C20: for every authenticated identity and allow-lists L1 \subseteq L2,
\* the guard that lets the identity through under L1 lets it through under
\* L2, and the guard that refuses it under L2 refuses it under L1.
C20_GuardMonotonic ==
    \A c \in Clients : \A token \in Presentable(c) :
       get_current_user(token, now).ok =>
          \A L2 \in SUBSET UserRole : \A L1 \in SUBSET L2 :
             /\ role_checker(L1, token, now).ok => role_checker(L2, token, now).ok
             /\ ~role_checker(L2, token, now).ok =>
                   /\ ~role_checker(L1, token, now).ok
                   /\ role_checker(L1, token, now).status = 403

\* C20 witness: an administrator, let through by the {admin} guard, was
\* let through by the wider {admin, trainer} guard of trainer-data.
C20_Witness ==
    /\ IsResp("trainer-data", 200)
    /\ role_checker(ADMIN_ONLY, held[resp.client], now).ok
    /\ ADMIN_ONLY \subseteq TRAINER_OR_ADMIN
    /\ ADMIN_ONLY # TRAINER_OR_ADMIN

(***************************************************************************)
(* SpecIssue: callers of auth.create_access_token pass every kind of       *)
(* expires_delta for the accounts of a deployment, keep the token and      *)
(* present it.                                                             *)
(***************************************************************************)
\* The expires_delta arguments a caller may pass: None, zero, positive and
\* negative timedeltas.
ExpiresDeltas ==
    Lifetimes \cup {<<0 - timedelta(1)>>, <<0 - timedelta(ACCESS_TOKEN_EXPIRE_MINUTES)>>}

\* Client c calls create_access_token for the account of an email, with a
\* role and an expires_delta, and keeps the token.
IssueToken(c, email, role, expires_delta) ==
    /\ inflight[c] = Idle
    /\ held' = [held EXCEPT ![c] =
          create_access_token([sub |-> email, roles |-> <<role>>],
                              expires_delta, now)]
    /\ resp' = [client |-> c, op |-> "issue", status |-> 0,
                detail |-> "", delta |-> expires_delta]
    /\ UNCHANGED <<users, classes, bookings, now, inflight>>

NextIssue ==
    \/ \E c \in Clients, email \in {AdminEmail, MemberEmail}, role \in UserRole :
          \E expires_delta \in ExpiresDeltas :
             IssueToken(c, email, role, expires_delta)
    \/ \E c \in Clients : \E token \in Presentable(c) : read_users_me(c, token)

SpecIssue == InitClock /\ [][NextIssue]_vars

\* C21: every token create_access_token produces, for an absent, zero,
\* positive or negative expires_delta, has exp > iat; and when an
\* expires_delta is passed, exp is the issue time plus that delta.
C21_TokenTimeInvariant ==
    resp.op = "issue" =>
       LET token == held[resp.client]
       IN /\ token.exp > token.iat
          /\ resp.delta # <<>> => token.exp = token.iat + resp.delta[1]

(***************************************************************************)
(* Properties of stored classes, checked under SpecLedger.                 *)
(***************************************************************************)
\* C22: every class that create-class has stored has max_capacity >= 1; a
\* request with capacity 0 stores no class.
C22_PositiveCapacity ==
    \A R \in ClassIds : classes[R].max_capacity >= 1

(***************************************************************************)
(* Properties of stored roles, checked under Spec.                         *)
(***************************************************************************)
\* C23: every stored account's role is admin, trainer or member.  An
\* update-role request whose role is outside the set writes nothing and is
\* answered 422 (or the guard's 401 or 403); a register request whose role
\* is outside the set is answered 422 and goes no further; the row a
\* register request in flight will store has a role of the set.
C23_ClosedRoleSet ==
    /\ \A i \in UserIds : users[i].role \in {"admin", "trainer", "member"}
    /\ \A c \in Clients : \A token \in Presentable(c) :
          \A user_id \in 1..(Len(users) + 1), role \in RoleInputs \ UserRole :
             LET r == update_user_role_result(token, user_id, role, now)
                 current_user == get_current_user(token, now)
             IN /\ r.users = users
                /\ r.resp.status \in {401, 403, 422}
                /\ (current_user.ok /\ current_user.user.role = "admin")
                      => r.resp.status = 422
    /\ \A user_data \in InvalidRegisterRequests :
          LET r == register_user_begin(user_data)
          IN r.resp.status = 422 /\ r.next = Idle /\ r.users = users
    /\ \A c \in Clients :
          inflight[c].pc = "create_user" =>
             \A salt \in Salts :
                create_user(inflight[c].user_data, salt).role
                   \in {"admin", "trainer", "member"}

\* C23 witness: an administrator asked for a role outside the set for one
\* of two accounts and was answered 422.
C23_Witness ==
    /\ IsResp("update-role", 422)
    /\ get_current_user(held[resp.client], now).ok
    /\ users[Subject(held[resp.client])].role = "admin"
    /\ Len(users) = 2

(***************************************************************************)
(* Properties of how roles change, checked under Spec.                     *)
(***************************************************************************)
\* C24: a stored role changes only in a step that answers 200 to an
\* update-role call for that account, made by a client whose token
\* authenticates as an account with the stored role admin; accounts are
\* never removed and a new account has the role member; so when no account
\* is an admin at the start, every account is a member forever.
C24_NoEscalation ==
    /\ [][/\ \A i \in UserIds :
                (i <= Len(users') /\ users'[i].role # users[i].role) =>
                   /\ resp'.op = "update-role"
                   /\ resp'.status = 200
                   /\ resp'.body.id = i
                   /\ get_current_user(held[resp'.client], now).ok
                   /\ users[Subject(held[resp'.client])].role = "admin"
          /\ Len(users') >= Len(users)
          /\ \A i \in (Len(users) + 1)..Len(users') : users'[i].role = "member"
         ]_vars
    /\ (\A i \in UserIds : users[i].role # "admin")
          => [](\A i \in UserIds : users[i].role = "member")

\* C24 witness: with two accounts and no admin among them, a caller that
\* authenticates asked for a role update and was answered 403.
C24_Witness ==
    /\ IsResp("update-role", 403)
    /\ get_current_user(held[resp.client], now).ok
    /\ Len(users) = 2
    /\ \A i \in UserIds : users[i].role = "member"

\* C25: for register calls that carry the same email and interleave, at most
\* one account with the email is committed, and every call that does not
\* create the account is answered 400 "Email already registered".
C25_ConcurrentRegistration ==
    /\ \A i, j \in UserIds : users[i].email = users[j].email => i = j
    /\ (resp.op = "register" /\ resp.status \notin {201, 422}) =>
          /\ resp.status = 400
          /\ resp.detail = "Email already registered"

(***************************************************************************)
(* Properties of the effect of a booking, checked under SpecLedger.        *)
(***************************************************************************)
\* C26: a step that changes the bookings table is the success (201) of one
\* create_booking call: it appends exactly one row, with the class_id the
\* call asked for and its caller's id, returned as the response; the count
\* of that class grows by one, the count of every other class, every class
\* and every account stay as they were; and in every step every existing
\* booking keeps its place and its content.
C26_BookingEffect ==
    [][/\ \A i \in 1..Len(bookings) :
             i <= Len(bookings') /\ bookings'[i] = bookings[i]
       /\ bookings' # bookings =>
             /\ Len(bookings') = Len(bookings) + 1
             /\ resp'.op = "book" /\ resp'.status = 201
             /\ LET c == resp'.client
                    new == bookings'[Len(bookings')]
                IN /\ inflight[c].pc = "check"
                   /\ new.class_id = inflight[c].class_id
                   /\ new.member_id = Caller(c)
                   /\ resp'.body = [id |-> Len(bookings'), class_id |-> new.class_id,
                                    member_id |-> new.member_id]
                   /\ \A R \in ClassIds :
                         Cardinality({i \in 1..Len(bookings') : bookings'[i].class_id = R})
                            = CountBookings(R) + (IF R = new.class_id THEN 1 ELSE 0)
             /\ UNCHANGED <<users, classes>>
       /\ (resp'.op = "book" /\ resp'.status = 201 /\ resp' # resp)
             => Len(bookings') = Len(bookings) + 1
      ]_vars

\* C26 witness: a booking was answered 201 and is the second row of the
\* table, after the booking that was there before.
C26_Witness ==
    /\ IsResp("book", 201)
    /\ resp.body.id = 2
    /\ Len(bookings) = 2
    /\ bookings[2].member_id = Caller(resp.client)

====
